---- MODULE Spec2Model ----
(***************************************************************************)
(* Booking / payment consistency workflow of the radio-station booking     *)
(* platform: the persistent store (advertisement slots, bookings,          *)
(* payments), and the request handlers that read and write it.  Every      *)
(* request is handled by a process; a handler is split into one atomic     *)
(* step per store or gateway round trip (each `await` of the source), so   *)
(* that concurrent requests interleave exactly where the code yields.      *)
(***************************************************************************)
EXTENDS Integers, Naturals, Sequences, FiniteSets, TLC

\* ------------------------------------------------------------------ bounds
MaxProcs == 2        \* concurrent requests in flight
MaxSlots == 1        \* advertisement slots ever created
MaxBookings == 2     \* Booking rows ever inserted
MaxPayments == 2     \* Payment rows ever inserted
MaxOrders == 2       \* gateway orders ever created
MaxRpIds == 2        \* distinct gateway payment ids a callback may carry
MaxUsers == 1        \* distinct users
MaxTimes == 1        \* distinct (station, RJ, slot time) triples

Procs == 1..MaxProcs
Users == 1..MaxUsers
Times == 1..MaxTimes
OrderIds == 1..MaxOrders
RpIds == 1..MaxRpIds

\* A null column / an empty request field.
Null == 0

\* ------------------------------------------------------------------ state
VARIABLES
    slots,       \* advertisement_slots collection: sequence of rows, id = index
    bookings,    \* bookings collection: sequence of rows, id = index
    payments,    \* payments collection: sequence of rows, id = index
    orders,      \* the orders the gateway has created: sequence, order id = index
    pc,          \* pc[p]: where request p stands in its handler
    call,        \* call[p]: arguments and locals of the request p is handling or just finished
    ret,         \* ret[p]: the response of the request p just finished
    transitions, \* transitions[s]: AVAILABLE -> BOOKED transitions slot s made
    commits,     \* commits[i]: step-3 transactions that were applied for payment i
    mails,       \* number of times SendMail was called
    isBookingSlotId  \* the station page's loading marker: the slot being booked, or null

vars == <<slots, bookings, payments, orders, pc, call, ret, transitions, commits, mails,
          isBookingSlotId>>
store == <<slots, bookings, payments>>

SlotIds == 1..Len(slots)
BookingIds == 1..Len(bookings)
PaymentIds == 1..Len(payments)

\* ------------------------------------------------------------ pure helpers

\* crypto.createHmac('sha256', secret).update(`${orderId}|${paymentId}`):
\* a keyed hash, modelled symbolically as the pair it was computed from
\* (collision-free; only the holder of the secret can produce it).
Hmac(orderId, rpId) == <<orderId, rpId>>

Signatures == {Hmac(o, r) : o \in OrderIds, r \in RpIds}

\* HttpStatus of @nestjs/common: the numeric code of each status used.
HttpStatus ==
    [BAD_REQUEST |-> 400, UNAUTHORIZED |-> 401, NOT_FOUND |-> 404, CONFLICT |-> 409,
     TOO_MANY_REQUESTS |-> 429, INTERNAL_SERVER_ERROR |-> 500, BAD_GATEWAY |-> 502]

NoRet == [status |-> "NONE", message |-> "", bookingId |-> Null, slotId |-> Null]

Error(status, message) ==
    [status |-> status, message |-> message, bookingId |-> Null, slotId |-> Null]

Idle == [op |-> "none"]

\* Mutant: no uniqueness constraint on Booking.slotId.
BookingSlotNotChecked(rows, slotId) == TRUE

\* Booking.slotId @unique: the store accepts an insert only if no row
\* already carries the same slotId.
BookingSlotUnique(rows, slotId) ==
    \A b \in 1..Len(rows) : rows[b].slotId # slotId

\* Mutant: no uniqueness constraint on Payment.bookingId.
PaymentBookingNotChecked(rows, bookingId) == TRUE

\* Payment.bookingId @unique.
PaymentBookingUnique(rows, bookingId) ==
    \A i \in 1..Len(rows) : rows[i].bookingId # bookingId

\* Mutant: no uniqueness constraint on Payment.razorpayPaymentId.
PaymentRpIdNotChecked(rows, paymentId, rpId) == TRUE

\* Payment.razorpayPaymentId @unique (null values do not collide).
PaymentRpIdUnique(rows, paymentId, rpId) ==
    \A i \in 1..Len(rows) : i # paymentId => rows[i].razorpayPaymentId # rpId

\* ------------------------------------------ IEEE-754 double arithmetic
\* amountInRupees is a JavaScript number.  A non-negative integer of up to 72
\* bits is a tuple of four limbs, least significant first.
LimbBase == 2^18

Limbs(n) == <<n % LimbBase, n \div LimbBase, 0, 0>>

\* Propagates the carries of limbs that have grown beyond the base.
Carry(n) ==
    LET l1 == n[1]
        l2 == n[2] + (l1 \div LimbBase)
        l3 == n[3] + (l2 \div LimbBase)
        l4 == n[4] + (l3 \div LimbBase)
    IN <<l1 % LimbBase, l2 % LimbBase, l3 % LimbBase, l4>>

\* n * c for a factor c of at most ten bits.
MulSmall(n, c) == Carry(<<n[1] * c, n[2] * c, n[3] * c, n[4] * c>>)

\* n + k for a small k.
AddSmall(n, k) == Carry(<<n[1] + k, n[2], n[3], n[4]>>)

\* Long division of n by a divisor d of at most ten bits.
DivSmall(n, d) ==
    LET t4 == n[4]
        t3 == (t4 % d) * LimbBase + n[3]
        t2 == (t3 % d) * LimbBase + n[2]
        t1 == (t2 % d) * LimbBase + n[1]
    IN [q |-> <<t1 \div d, t2 \div d, t3 \div d, t4 \div d>>, r |-> t1 % d]

BitLenSmall(x) == CHOOSE b \in 0..31 : (b = 0 \/ 2^(b-1) <= x) /\ (b = 31 \/ x < 2^b)

BitLen(n) ==
    IF n[4] # 0 THEN 54 + BitLenSmall(n[4])
    ELSE IF n[3] # 0 THEN 36 + BitLenSmall(n[3])
    ELSE IF n[2] # 0 THEN 18 + BitLenSmall(n[2])
    ELSE BitLenSmall(n[1])

\* n * 2^s.
ShiftLeft(n, s) ==
    LET a == s \div 18
        b == s % 18
        moved == [i \in 1..4 |-> IF i <= a THEN 0 ELSE n[i - a]]
    IN IF b <= 9 THEN MulSmall(moved, 2^b)
       ELSE MulSmall(MulSmall(moved, 2^9), 2^(b - 9))

\* floor(n / 2^s), and whether a one bit was shifted out.
ShiftRight(n, s) ==
    LET a == s \div 18
        b == s % 18
        moved == [i \in 1..4 |-> IF i + a <= 4 THEN n[i + a] ELSE 0]
        lost == \E i \in 1..4 : i <= a /\ n[i] # 0
        d1 == DivSmall(moved, 2^(IF b <= 9 THEN b ELSE 9))
        d2 == DivSmall(d1.q, 2^(IF b <= 9 THEN 0 ELSE b - 9))
    IN [q |-> d2.q, inexact |-> lost \/ d1.r # 0 \/ d2.r # 0]

\* Rounds the value n * 2^e (plus a nonzero fraction below the last bit of n
\* when sticky) to a 53-bit significand, to nearest, ties to even.
RoundToDouble(n, e, sticky) ==
    LET t == IF BitLen(n) > 53 THEN BitLen(n) - 53 ELSE 0
        kept == ShiftRight(n, t).q
        roundBit == t > 0 /\ ShiftRight(n, t - 1).q[1] % 2 = 1
        below == sticky \/ (t > 1 /\ ShiftRight(n, t - 1).inexact)
        up == roundBit /\ (below \/ kept[1] % 2 = 1)
    IN [m |-> IF up THEN AddSmall(kept, 1) ELSE kept, e |-> e + t]

\* The double a decimal literal of k thousandths (k > 0) denotes: the
\* nearest double to k / 1000.
DoubleOf(k) ==
    LET s == 66 - BitLenSmall(k)
        d1 == DivSmall(ShiftLeft(Limbs(k), s), 8)
        d2 == DivSmall(d1.q, 125)
    IN RoundToDouble(d2.q, 0 - s, d1.r # 0 \/ d2.r # 0)

\* x * c in double arithmetic, for a small integer c.
DoubleTimes(x, c) == RoundToDouble(MulSmall(x.m, c), x.e, FALSE)

\* Math.round: the nearest integer, a tie going up: floor(x + 1/2).
MathRound(x) ==
    LET f == 0 - x.e
        n == IF f > 0
             THEN ShiftRight(Carry([i \in 1..4 |->
                                x.m[i] + ShiftLeft(Limbs(1), f - 1)[i]]), f).q
             ELSE ShiftLeft(x.m, x.e)
    IN n[1] + n[2] * LimbBase

\* The request ends with response r; c is the request (its arguments and
\* locals), kept until the response has left.
Finish(p, c, r) ==
    /\ pc' = [pc EXCEPT ![p] = "done"]
    /\ call' = [call EXCEPT ![p] = c]
    /\ ret' = [ret EXCEPT ![p] = r]
    /\ UNCHANGED isBookingSlotId

Goto(p, label, c) ==
    /\ pc' = [pc EXCEPT ![p] = label]
    /\ call' = [call EXCEPT ![p] = c]
    /\ UNCHANGED <<ret, isBookingSlotId>>

\* ------------------------------------------------------------------- Init
Init ==
    /\ slots = <<>>
    /\ bookings = <<>>
    /\ payments = <<>>
    /\ orders = <<>>
    /\ pc = [p \in Procs |-> "idle"]
    /\ call = [p \in Procs |-> Idle]
    /\ ret = [p \in Procs |-> NoRet]
    /\ transitions = <<>>
    /\ commits = <<>>
    /\ mails = 0
    /\ isBookingSlotId = Null

\* Requests that passed a check and have an insert still to come: the caps
\* on the collections count them, so that no request is left stranded.
Pending(label) == Cardinality({p \in Procs : pc[p] = label})

Ok(message, bookingId, slotId) ==
    [status |-> "OK", message |-> message, bookingId |-> bookingId, slotId |-> slotId]

\* ------------------------------------------- AdvertisementSlotService

\* create, first await: findFirst on (stationId, rjId, slotTime), while the
\* collection is to hold no more than cap rows.
CreateSlotCheckWithin(p, t, cap) ==
    LET c == [op |-> "createSlot", slotTime |-> t] IN
    /\ pc[p] = "idle"
    /\ Len(slots) + Pending("slot_insert") < cap
    /\ UNCHANGED <<store, orders, transitions, commits, mails>>
    /\ IF \E s \in SlotIds : slots[s].exists /\ slots[s].slotTime = t
       THEN Finish(p, c, Error("BAD_REQUEST", "A slot already exists for this station, RJ, and exact time."))
       ELSE Goto(p, "slot_insert", c)

CreateSlotCheck(p, t) == CreateSlotCheckWithin(p, t, MaxSlots)

\* create, second await: advertisementSlot.create; availabilityStatus
\* takes the schema default AVAILABLE.
CreateSlotInsert(p) ==
    /\ pc[p] = "slot_insert"
    /\ slots' = Append(slots, [exists |-> TRUE, slotTime |-> call[p].slotTime,
                               availabilityStatus |-> "AVAILABLE"])
    /\ transitions' = Append(transitions, 0)
    /\ Finish(p, call[p], Ok("created", Null, Len(slots) + 1))
    /\ UNCHANGED <<bookings, payments, orders, commits, mails>>

\* update, first await: findUnique by id.
UpdateSlotFind(p, id, t) ==
    LET c == [op |-> "updateSlot", slotId |-> id, slotTime |-> t] IN
    /\ pc[p] = "idle"
    /\ UNCHANGED <<store, orders, transitions, commits, mails>>
    /\ IF id \in SlotIds /\ slots[id].exists
       THEN Goto(p, "slot_update", c)
       ELSE Finish(p, c, Error("NOT_FOUND", "Slot not found."))

\* The row an update writes: the fields of the request body (slotTime here),
\* never availabilityStatus.
UpdatedSlot(row, t) == [row EXCEPT !.slotTime = t]

\* update, second await: advertisementSlot.update({where: {id}}), which
\* throws when the row has gone.
UpdateSlotWrite(p) ==
    LET id == call[p].slotId IN
    /\ pc[p] = "slot_update"
    /\ UNCHANGED <<bookings, payments, orders, transitions, commits, mails>>
    /\ IF slots[id].exists
       THEN /\ slots' = [slots EXCEPT ![id] = UpdatedSlot(slots[id], call[p].slotTime)]
            /\ Finish(p, call[p], Ok("updated", Null, id))
       ELSE /\ UNCHANGED slots
            /\ Finish(p, call[p], Error("INTERNAL_SERVER_ERROR", "Record to update not found."))

\* remove, steps 1-3: findUnique, then booking.count({where: {slotId}}).
RemoveSlotCount(p, id) ==
    LET c == [op |-> "removeSlot", slotId |-> id] IN
    /\ pc[p] = "idle"
    /\ UNCHANGED <<store, orders, transitions, commits, mails>>
    /\ IF ~(id \in SlotIds /\ slots[id].exists)
       THEN Finish(p, c, Error("NOT_FOUND", "Advertisement Slot not found."))
       ELSE IF Cardinality({b \in BookingIds : bookings[b].slotId = id}) > 0
       THEN Finish(p, c, Error("CONFLICT", "Cannot delete this slot. It has associated booking(s)."))
       ELSE Goto(p, "slot_delete", c)

\* remove, step 4: advertisementSlot.delete({where: {id}}).  The store has
\* no foreign keys; when a booking has come to reference the slot since the
\* count, the client's emulation of the relation may refuse the delete
\* (P2014) or let it through.
RemoveSlotDelete(p) ==
    LET id == call[p].slotId IN
    /\ pc[p] = "slot_delete"
    /\ UNCHANGED <<bookings, payments, orders, transitions, commits, mails>>
    /\ IF ~slots[id].exists
       THEN /\ UNCHANGED slots
            /\ Finish(p, call[p], Error("INTERNAL_SERVER_ERROR", "Could not delete slot due to an internal error."))
       ELSE \/ /\ slots' = [slots EXCEPT ![id].exists = FALSE]
               /\ Finish(p, call[p], Ok("deleted", Null, id))
            \/ /\ \E b \in BookingIds : bookings[b].slotId = id
               /\ UNCHANGED slots
               /\ Finish(p, call[p], Error("CONFLICT", "Deletion conflict: Slot might still have associated bookings."))

\* ------------------------------------------------ Booking Orchestrator

\* createBooking, lookup: the slot must exist.
CreateBookingLookup(p, userId, slotId) ==
    LET c == [op |-> "createBooking", userId |-> userId, slotId |-> slotId] IN
    /\ pc[p] = "idle"
    /\ Len(bookings) + Pending("booking_insert") < MaxBookings
    /\ UNCHANGED <<store, orders, transitions, commits, mails>>
    /\ IF slotId \in SlotIds /\ slots[slotId].exists
       THEN Goto(p, "booking_insert", c)
       ELSE Finish(p, c, Error("NOT_FOUND", "Slot not found."))

\* Mutant: creating the booking reserves the slot.
CreateBookingInsertReservingSlot(p) ==
    /\ pc[p] = "booking_insert"
    /\ UNCHANGED <<payments, orders, transitions, commits, mails>>
    /\ IF BookingSlotUnique(bookings, call[p].slotId)
       THEN /\ bookings' = Append(bookings, [userId |-> call[p].userId,
                                             slotId |-> call[p].slotId,
                                             bookingStatus |-> "PENDING"])
            /\ slots' = [slots EXCEPT ![call[p].slotId].availabilityStatus = "BOOKED"]
            /\ Finish(p, call[p], Ok("booked", Len(bookings) + 1, call[p].slotId))
       ELSE /\ UNCHANGED <<bookings, slots>>
            /\ Finish(p, call[p], Error("CONFLICT", "Slot already has a booking."))

\* createBooking, insert: the store rejects a second row for the same slot;
\* bookingStatus takes the schema default PENDING.  The slot is not touched.
CreateBookingInsert(p) ==
    /\ pc[p] = "booking_insert"
    /\ UNCHANGED <<slots, payments, orders, transitions, commits, mails>>
    /\ IF BookingSlotUnique(bookings, call[p].slotId)
       THEN /\ bookings' = Append(bookings, [userId |-> call[p].userId,
                                             slotId |-> call[p].slotId,
                                             bookingStatus |-> "PENDING"])
            /\ Finish(p, call[p], Ok("booked", Len(bookings) + 1, call[p].slotId))
       ELSE /\ UNCHANGED bookings
            /\ Finish(p, call[p], Error("CONFLICT", "Slot already has a booking."))

\* Admin Approval Stage: finalizes a PENDING booking.
AdminDecide(b, decision) ==
    /\ b \in BookingIds
    /\ bookings[b].bookingStatus = "PENDING"
    /\ bookings' = [bookings EXCEPT ![b].bookingStatus = decision]
    /\ UNCHANGED <<slots, payments, orders, pc, call, ret, transitions, commits, mails,
                   isBookingSlotId>>

\* ------------------------------------------------------- PaymentService

\* The amounts tried, in thousandths of a rupee: zero, and 199.995.
Amounts == {0, 199995}

\* Math.round(amountInRupees * 100), for an amount of k thousandths of a
\* rupee, k > 0.
AmountPaise(k) == MathRound(DoubleTimes(DoubleOf(k), 100))

\* Mutant: the amount is not checked again after the rounding.
AmountRejectedBeforeRounding(k) == k <= 0

\* The two amount checks: amountInRupees <= 0, and amountPaise <= 0 after
\* the rounding.
AmountRejected(k) == k <= 0 \/ AmountPaise(k) <= 0

\* Mutant: a booking of any status can be paid.
AnyBookingPayable(booking) == TRUE

\* booking.bookingStatus === BookingStatus.PENDING.
BookingPayable(booking) == booking.bookingStatus = "PENDING"

\* An error that carries neither statusCode nor error.
NoAnswer == [statusCode |-> "", code |-> ""]

\* createPayment up to its second await: the amount checks, then
\* booking.findUnique and the status check.
CreatePaymentLoad(p, bookingId, userId, amount) ==
    LET c == [op |-> "createPayment", bookingId |-> bookingId, userId |-> userId,
              amount |-> amount, transactionId |-> "txn", amountPaise |-> Null,
              orderId |-> Null, paymentId |-> Null, error |-> NoAnswer] IN
    /\ pc[p] = "idle"
    /\ Len(payments) + Pending("pay_order") + Pending("pay_insert") < MaxPayments
    /\ Len(orders) + Pending("pay_order") < MaxOrders
    /\ UNCHANGED <<store, orders, transitions, commits, mails>>
    /\ IF amount <= 0
       THEN Finish(p, c, Error("BAD_REQUEST", "Invalid payment amount provided."))
       ELSE IF AmountRejected(amount)
       THEN Finish(p, c, Error("BAD_REQUEST", "Amount must be positive."))
       ELSE IF bookingId \notin BookingIds
       THEN Finish(p, c, Error("NOT_FOUND", "Booking not found."))
       ELSE IF ~BookingPayable(bookings[bookingId])
       THEN Finish(p, c, Error("BAD_REQUEST", "Booking status does not allow payment."))
       ELSE Goto(p, "pay_order", [c EXCEPT !.amountPaise = AmountPaise(amount)])

\* The failures of razorpay.orders.create: the HTTP status of the gateway's
\* answer and the code of the error in its body; both are absent when no
\* answer came (a timeout, a network failure).
GatewayErrors ==
    {[statusCode |-> "BAD_REQUEST", code |-> "BAD_REQUEST_ERROR"],
     [statusCode |-> "UNAUTHORIZED", code |-> "BAD_REQUEST_ERROR"],
     [statusCode |-> "TOO_MANY_REQUESTS", code |-> "RATE_LIMIT_ERROR"],
     [statusCode |-> "BAD_GATEWAY", code |-> "GATEWAY_ERROR"],
     NoAnswer}

\* The catch block of createPayment for an error thrown by the gateway: a
\* BAD_REQUEST_ERROR becomes BAD_REQUEST, another gateway error keeps the
\* gateway's status, anything else becomes INTERNAL_SERVER_ERROR.
GatewayErrorResponse(error) ==
    IF error.statusCode # "" /\ error.code = "BAD_REQUEST_ERROR"
    THEN Error("BAD_REQUEST", "Payment gateway validation error")
    ELSE IF error.statusCode # "" /\ error.code # ""
    THEN Error(error.statusCode, "Razorpay Error")
    ELSE Error("INTERNAL_SERVER_ERROR", "Failed to create payment order due to an unexpected error.")

\* Mutant: a failure of the gateway is swallowed and the row inserted
\* without an order.
CreatePaymentOrderIgnoringFailure(p) ==
    /\ pc[p] = "pay_order"
    /\ UNCHANGED <<store, transitions, commits, mails>>
    /\ \/ /\ orders' = Append(orders, [amount |-> call[p].amountPaise])
          /\ Goto(p, "pay_insert", [call[p] EXCEPT !.orderId = Len(orders) + 1])
       \/ /\ UNCHANGED orders
          /\ \E error \in GatewayErrors :
                Goto(p, "pay_insert", [call[p] EXCEPT !.error = error])

\* createPayment, second await: razorpay.orders.create.  The gateway either
\* issues a fresh order for the amount in paise or fails.
CreatePaymentOrder(p) ==
    /\ pc[p] = "pay_order"
    /\ UNCHANGED <<store, transitions, commits, mails>>
    /\ \/ /\ orders' = Append(orders, [amount |-> call[p].amountPaise])
          /\ Goto(p, "pay_insert", [call[p] EXCEPT !.orderId = Len(orders) + 1])
       \/ /\ UNCHANGED orders
          /\ \E error \in GatewayErrors :
                Finish(p, [call[p] EXCEPT !.error = error], GatewayErrorResponse(error))

\* The row payment.create inserts.
NewPayment(c, now) ==
    [bookingId |-> c.bookingId, userId |-> c.userId, amountInPaise |-> c.amountPaise,
     currency |-> "INR", paymentStatus |-> "PENDING",
     transactionId |-> c.transactionId, paymentDate |-> now,
     razorpayOrderId |-> c.orderId, razorpayPaymentId |-> Null,
     razorpaySignature |-> <<>>]

\* Mutant: a failure of payment.create is swallowed and the notification
\* sent all the same.
CreatePaymentInsertIgnoringFailure(p) ==
    /\ pc[p] = "pay_insert"
    /\ UNCHANGED <<slots, bookings, orders, transitions, mails>>
    /\ \E storeFails \in BOOLEAN :
         IF ~PaymentBookingUnique(payments, call[p].bookingId) \/ storeFails
         THEN /\ UNCHANGED <<payments, commits>>
              /\ Goto(p, "pay_mail", call[p])
         ELSE /\ payments' = Append(payments, NewPayment(call[p], Len(payments) + 1))
              /\ commits' = Append(commits, 0)
              /\ Goto(p, "pay_mail", [call[p] EXCEPT !.paymentId = Len(payments) + 1])

\* createPayment, third await: payment.create.  P2002 (unique constraint)
\* becomes CONFLICT, any other store error INTERNAL_SERVER_ERROR.
CreatePaymentInsert(p) ==
    /\ pc[p] = "pay_insert"
    /\ UNCHANGED <<slots, bookings, orders, transitions, mails>>
    /\ \E storeFails \in BOOLEAN :
         IF ~PaymentBookingUnique(payments, call[p].bookingId)
         THEN /\ UNCHANGED <<payments, commits>>
              /\ Finish(p, call[p], Error("CONFLICT", "Database constraint violation"))
         ELSE IF storeFails
         THEN /\ UNCHANGED <<payments, commits>>
              /\ Finish(p, call[p], Error("INTERNAL_SERVER_ERROR", "Database error"))
         ELSE /\ payments' = Append(payments, NewPayment(call[p], Len(payments) + 1))
              /\ commits' = Append(commits, 0)
              /\ Goto(p, "pay_mail", [call[p] EXCEPT !.paymentId = Len(payments) + 1])

\* Mutant: a failed notification rolls the payment back.
PaymentsRolledBack(rows, paymentId) ==
    [rows EXCEPT ![paymentId].paymentStatus = "FAILED"]

\* What the failure of SendMail does to the payments: nothing, the error is
\* only rethrown.
PaymentsAfterMailFailure(rows, paymentId) == rows

\* createPayment, fourth await: SendMail; its failure is thrown to the
\* caller, the inserted row stays.
CreatePaymentMail(p) ==
    /\ pc[p] = "pay_mail"
    /\ mails' = mails + 1
    /\ UNCHANGED <<slots, bookings, orders, transitions, commits>>
    /\ \E sent \in BOOLEAN :
         IF sent
         THEN /\ UNCHANGED payments
              /\ Finish(p, call[p], Ok("order", call[p].bookingId, Null))
         ELSE /\ payments' = PaymentsAfterMailFailure(payments, call[p].paymentId)
              /\ Finish(p, call[p], Error("INTERNAL_SERVER_ERROR", "Error sending email"))

\* generatedSignature !== razorpaySignature, with the signature recomputed
\* from the STORED order id and the SUPPLIED payment id.
SignatureValid(storedOrderId, rpId, sig) == sig = Hmac(storedOrderId, rpId)

\* Mutant: no idempotence check, a completed payment falls through to the
\* state check.
NeverAlreadyCompleted(payment) == FALSE

\* The idempotence check: the payment was completed before.
AlreadyCompleted(payment) == payment.paymentStatus = "COMPLETED"

\* Mutant: the state check lets a FAILED payment through.
NeverInvalidStatus(payment) == FALSE

\* The state check: payment.paymentStatus !== PaymentStatus.PENDING.
InvalidStatus(payment) == payment.paymentStatus # "PENDING"

\* Mutant: the supplied order id is not compared with the stored one.
OrderIdNotCompared(payment, orderId) == FALSE

\* The order-id check: payment.razorpayOrderId !== razorpayOrderId.
OrderIdMismatch(payment, orderId) == payment.razorpayOrderId # orderId

\* The argument check: !paymentId || !razorpayOrderId || !razorpayPaymentId
\* || !razorpaySignature.
MissingDetails(paymentId, orderId, rpId, sig) ==
    paymentId = Null \/ orderId = Null \/ rpId = Null \/ sig = <<>>

\* The link check: !payment.booking || !payment.booking.slotId.
MissingLink(payment) ==
    \/ payment.bookingId \notin BookingIds
    \/ bookings[payment.bookingId].slotId = Null

\* Mutant: a missing link is reported like a missing payment.
MissingLinkAsNotFound ==
    Error("NOT_FOUND", "Associated booking or slot not found for this payment.")

\* What a missing link throws.
MissingLinkError ==
    Error("INTERNAL_SERVER_ERROR", "Associated booking or slot not found for this payment.")

\* completePayment up to its first write: argument check, payment.findUnique
\* with the booking included, idempotence and state checks, order-id check,
\* signature check.
CompletePaymentLoad(p, paymentId, orderId, rpId, sig) ==
    LET c == [op |-> "completePayment", paymentId |-> paymentId, orderId |-> orderId,
              rpId |-> rpId, sig |-> sig, bookingId |-> Null, slotId |-> Null] IN
    /\ pc[p] = "idle"
    /\ UNCHANGED <<store, orders, transitions, commits, mails>>
    /\ IF MissingDetails(paymentId, orderId, rpId, sig)
       THEN Finish(p, c, Error("BAD_REQUEST", "Missing required payment details for verification."))
       ELSE IF paymentId \notin PaymentIds
       THEN Finish(p, c, Error("NOT_FOUND", "Payment record not found."))
       ELSE LET payment == payments[paymentId] IN
       IF MissingLink(payment)
       THEN Finish(p, c, MissingLinkError)
       ELSE LET slotId == bookings[payment.bookingId].slotId
                loaded == [c EXCEPT !.bookingId = payment.bookingId, !.slotId = slotId] IN
       IF AlreadyCompleted(payment)
       THEN Finish(p, c, Ok("Payment already verified and completed.", payment.bookingId, slotId))
       ELSE IF InvalidStatus(payment)
       THEN Finish(p, c, Error("BAD_REQUEST", "Payment cannot be completed in its current state"))
       ELSE IF OrderIdMismatch(payment, orderId)
       THEN Finish(p, c, Error("BAD_REQUEST", "Order ID mismatch."))
       ELSE IF SignatureValid(payment.razorpayOrderId, rpId, sig)
       THEN Goto(p, "pay_commit", loaded)
       ELSE Goto(p, "pay_fail", loaded)

\* Mutant: the FAILED status is not written.
FailedPaymentNotMarked(row) == row

\* payment.update({where: {id}, data: {paymentStatus: FAILED}}).
FailedPayment(row) == [row EXCEPT !.paymentStatus = "FAILED"]

\* Mutant: a failed verification also releases the slot.
CompletePaymentFailReleasingSlot(p) ==
    /\ pc[p] = "pay_fail"
    /\ payments' = [payments EXCEPT ![call[p].paymentId] = FailedPayment(@)]
    /\ slots' = [slots EXCEPT ![call[p].slotId].availabilityStatus = "AVAILABLE"]
    /\ Finish(p, call[p], Error("BAD_REQUEST", "Invalid payment signature."))
    /\ UNCHANGED <<bookings, orders, transitions, commits, mails>>

\* completePayment, invalid signature: mark the payment FAILED and throw.
CompletePaymentFail(p) ==
    /\ pc[p] = "pay_fail"
    /\ payments' = [payments EXCEPT ![call[p].paymentId] = FailedPayment(@)]
    /\ Finish(p, call[p], Error("BAD_REQUEST", "Invalid payment signature."))
    /\ UNCHANGED <<slots, bookings, orders, transitions, commits, mails>>

\* Mutant: the transaction clears the order id of the payment it completes.
CompletedPaymentForgettingOrder(row, rpId, sig) ==
    [row EXCEPT !.paymentStatus = "COMPLETED", !.razorpayPaymentId = rpId,
                !.razorpaySignature = sig, !.razorpayOrderId = Null]

\* Mutant: the transaction sets the status only.
CompletedPaymentWithoutIds(row, rpId, sig) ==
    [row EXCEPT !.paymentStatus = "COMPLETED"]

\* The two updates of the transaction, and what it leaves alone.
CompletedPayment(row, rpId, sig) ==
    [row EXCEPT !.paymentStatus = "COMPLETED", !.razorpayPaymentId = rpId,
                !.razorpaySignature = sig]

BookedSlot(row) == [row EXCEPT !.availabilityStatus = "BOOKED"]

\* Mutant: the commit also approves the booking.
ApprovedAfterCommit(rows, bookingId) ==
    [rows EXCEPT ![bookingId].bookingStatus = "APPROVED"]

BookingsAfterCommit(rows, bookingId) == rows

\* Mutant: the two updates are not one transaction; the payment update
\* survives a failure of the slot update.
TornTransaction(applied, c) ==
    <<[payments EXCEPT ![c.paymentId] = CompletedPayment(@, c.rpId, c.sig)],
      IF applied THEN [slots EXCEPT ![c.slotId] = BookedSlot(@)] ELSE slots>>

\* Mutant: a failed transaction marks the payment FAILED.
FailedOnError(applied, c) ==
    IF applied
    THEN <<[payments EXCEPT ![c.paymentId] = CompletedPayment(@, c.rpId, c.sig)],
           [slots EXCEPT ![c.slotId] = BookedSlot(@)]>>
    ELSE <<[payments EXCEPT ![c.paymentId].paymentStatus = "FAILED"], slots>>

\* The payment and slot rows the transaction leaves in the store: both
\* updates or, when it fails, neither.
TransactionResult(applied, c) ==
    IF applied
    THEN <<[payments EXCEPT ![c.paymentId] = CompletedPayment(@, c.rpId, c.sig)],
           [slots EXCEPT ![c.slotId] = BookedSlot(@)]>>
    ELSE <<payments, slots>>

\* Whether the store can apply the transaction: both updates are keyed by id
\* alone, so the slot row must exist, and the payment id must not be recorded
\* on another payment (@unique).  The payment's current status is not read.
CanCommit(c) ==
    /\ c.slotId \in SlotIds
    /\ slots[c.slotId].exists
    /\ PaymentRpIdUnique(payments, c.paymentId, c.rpId)

\* completePayment, valid signature: prisma.$transaction([payment.update,
\* advertisementSlot.update]); a failure is caught and rethrown as
\* INTERNAL_SERVER_ERROR.
CompletePaymentCommit(p) ==
    LET c == call[p] IN
    /\ pc[p] = "pay_commit"
    /\ UNCHANGED <<orders, mails>>
    /\ \E storeFails \in BOOLEAN :
         LET applied == CanCommit(c) /\ ~storeFails
             after == TransactionResult(applied, c)
         IN /\ payments' = after[1]
            /\ slots' = after[2]
            /\ bookings' = IF applied THEN BookingsAfterCommit(bookings, c.bookingId)
                           ELSE bookings
            /\ transitions' =
                 IF /\ c.slotId \in SlotIds
                    /\ slots[c.slotId].availabilityStatus = "AVAILABLE"
                    /\ after[2][c.slotId].availabilityStatus = "BOOKED"
                 THEN [transitions EXCEPT ![c.slotId] = @ + 1] ELSE transitions
            /\ commits' = IF applied THEN [commits EXCEPT ![c.paymentId] = @ + 1]
                          ELSE commits
            /\ Finish(p, c,
                      IF applied
                      THEN Ok("Payment verified successfully. Slot booked. Awaiting admin approval for booking.",
                              c.bookingId, c.slotId)
                      ELSE Error("INTERNAL_SERVER_ERROR",
                                 "Payment verified, but failed to update booking/slot status in database."))

\* The callbacks tried: <<paymentId, razorpayOrderId, razorpayPaymentId,
\* razorpaySignature>>.  The signature is a genuine one for the supplied order
\* id and some payment id (the supplied one or another: a tampered callback);
\* one callback stands for all those with a missing field.
CompleteInputs ==
    {in \in (1..MaxPayments) \X OrderIds \X (RpIds \cup {Null}) \X Signatures :
        /\ in[4][1] = in[2]
        /\ in[3] = Null => in = <<1, 1, Null, Hmac(1, 1)>>}

\* The response leaves the server; the process is free for the next request.
Return(p) ==
    /\ pc[p] = "done"
    /\ pc' = [pc EXCEPT ![p] = "idle"]
    /\ call' = [call EXCEPT ![p] = Idle]
    /\ ret' = [ret EXCEPT ![p] = NoRet]
    /\ UNCHANGED <<store, orders, transitions, commits, mails, isBookingSlotId>>

\* ------------------------------------------------------------------- Next
SlotNext ==
    \E p \in Procs :
        \/ \E t \in Times : CreateSlotCheck(p, t)
        \/ CreateSlotInsert(p)
        \/ \E id \in 1..MaxSlots, t \in Times : UpdateSlotFind(p, id, t)
        \/ UpdateSlotWrite(p)
        \/ \E id \in 1..MaxSlots : RemoveSlotCount(p, id)
        \/ RemoveSlotDelete(p)

BookingNext ==
    \/ \E p \in Procs :
        \/ \E u \in Users, s \in 1..MaxSlots : CreateBookingLookup(p, u, s)
        \/ CreateBookingInsert(p)
    \/ \E b \in 1..MaxBookings, d \in {"APPROVED", "REJECTED"} : AdminDecide(b, d)

\* The steps of createPayment requests whose amounts are drawn from A.
CreatePaymentSteps(A) ==
    \E p \in Procs :
        \/ \E b \in 1..MaxBookings, u \in Users, a \in A :
              CreatePaymentLoad(p, b, u, a)
        \/ CreatePaymentOrder(p)
        \/ CreatePaymentInsert(p)
        \/ CreatePaymentMail(p)

CreatePaymentNext == CreatePaymentSteps(Amounts)

CompletePaymentNext ==
    \E p \in Procs :
        \/ \E in \in CompleteInputs : CompletePaymentLoad(p, in[1], in[2], in[3], in[4])
        \/ CompletePaymentFail(p)
        \/ CompletePaymentCommit(p)

Next ==
    \/ SlotNext
    \/ BookingNext
    \/ CreatePaymentNext
    \/ CompletePaymentNext
    \/ \E p \in Procs : Return(p)

Spec == Init /\ [][Next]_vars

\* ------------------------------------------------- payments of one booking
\* The createPayment requests alone, over a wider range of amounts, from the
\* state in which one slot has been created and booked.

\* The amounts tried, in thousandths of a rupee: negative, zero, 0.004 (rounds
\* to no paise), 0.005, 1.00, 1.005, 2.675, 199.99 and 199.995.
PayAmounts == {0 - 1000, 0, 4, 5, 1000, 1005, 2675, 199990, 199995}

PayInit ==
    /\ slots = <<[exists |-> TRUE, slotTime |-> 1, availabilityStatus |-> "AVAILABLE"]>>
    /\ bookings = <<[userId |-> 1, slotId |-> 1, bookingStatus |-> "PENDING"]>>
    /\ payments = <<>>
    /\ orders = <<>>
    /\ pc = [p \in Procs |-> "idle"]
    /\ call = [p \in Procs |-> Idle]
    /\ ret = [p \in Procs |-> NoRet]
    /\ transitions = <<0>>
    /\ commits = <<>>
    /\ mails = 0
    /\ isBookingSlotId = Null

PayNext ==
    \/ CreatePaymentSteps(PayAmounts)
    \/ \E b \in 1..MaxBookings, d \in {"APPROVED", "REJECTED"} : AdminDecide(b, d)
    \/ \E p \in Procs : Return(p)

PaySpec == PayInit /\ [][PayNext]_vars

\* ------------------------------------------------ callbacks on one payment
\* The completePayment requests alone, over every combination of arguments
\* (a missing one included, and signatures made for another order or payment
\* id), against one PENDING payment.  The store is MongoDB: it holds no
\* foreign keys, so the payment's booking may be gone or may carry no slot
\* reference, which is what completePayment's link check is there for.

CallbackInputs ==
    (0..MaxPayments) \X (OrderIds \cup {Null}) \X (RpIds \cup {Null})
        \X (Signatures \cup {<<>>})

\* The booking rows the payment may find: its booking, none, or a booking
\* without slot reference.
CallbackBookings ==
    { <<[userId |-> 1, slotId |-> 1, bookingStatus |-> "PENDING"]>>,
      <<>>,
      <<[userId |-> 1, slotId |-> Null, bookingStatus |-> "PENDING"]>> }

CallbackInit ==
    /\ slots = <<[exists |-> TRUE, slotTime |-> 1, availabilityStatus |-> "AVAILABLE"]>>
    /\ bookings \in CallbackBookings
    /\ payments = <<NewPayment([bookingId |-> 1, userId |-> 1, amountPaise |-> 100,
                                transactionId |-> "txn", orderId |-> 1], 1)>>
    /\ orders = <<[amount |-> 100]>>
    /\ pc = [p \in Procs |-> "idle"]
    /\ call = [p \in Procs |-> Idle]
    /\ ret = [p \in Procs |-> NoRet]
    /\ transitions = <<0>>
    /\ commits = <<0>>
    /\ mails = 1
    /\ isBookingSlotId = Null

CallbackNext ==
    \E p \in Procs :
        \/ \E in \in CallbackInputs : CompletePaymentLoad(p, in[1], in[2], in[3], in[4])
        \/ CompletePaymentFail(p)
        \/ CompletePaymentCommit(p)
        \/ Return(p)

CallbackSpec == CallbackInit /\ [][CallbackNext]_vars

\* ------------------------------------------------- slots of one station
\* The create and update requests of AdvertisementSlotService alone, for the
\* slots of one station and RJ, with room for MaxSlotRows rows and
\* MaxSlotTimes slot times.

MaxSlotRows == 2
MaxSlotTimes == 2

SlotTimes == 1..MaxSlotTimes

SlotsNext ==
    \E p \in Procs :
        \/ \E t \in SlotTimes : CreateSlotCheckWithin(p, t, MaxSlotRows)
        \/ CreateSlotInsert(p)
        \/ \E id \in 1..MaxSlotRows, t \in SlotTimes : UpdateSlotFind(p, id, t)
        \/ UpdateSlotWrite(p)
        \/ Return(p)

SlotsSpec == Init /\ [][SlotsNext]_vars

\* ------------------------------------------------ callbacks on two payments
\* The completePayment requests alone, against two PENDING payments of two
\* bookings of two slots, with every combination of present arguments: the
\* payment id one payment has recorded can be offered for the other.

PairInputs == (1..2) \X OrderIds \X RpIds \X Signatures

PairInit ==
    /\ slots = [s \in 1..2 |-> [exists |-> TRUE, slotTime |-> s,
                                 availabilityStatus |-> "AVAILABLE"]]
    /\ bookings = [b \in 1..2 |-> [userId |-> 1, slotId |-> b, bookingStatus |-> "PENDING"]]
    /\ payments = [i \in 1..2 |->
                     NewPayment([bookingId |-> i, userId |-> 1, amountPaise |-> 100 * i,
                                 transactionId |-> "txn", orderId |-> i], i)]
    /\ orders = [i \in 1..2 |-> [amount |-> 100 * i]]
    /\ pc = [p \in Procs |-> "idle"]
    /\ call = [p \in Procs |-> Idle]
    /\ ret = [p \in Procs |-> NoRet]
    /\ transitions = <<0, 0>>
    /\ commits = <<0, 0>>
    /\ mails = 2
    /\ isBookingSlotId = Null

PairNext ==
    \E p \in Procs :
        \/ \E in \in PairInputs : CompletePaymentLoad(p, in[1], in[2], in[3], in[4])
        \/ CompletePaymentFail(p)
        \/ CompletePaymentCommit(p)
        \/ Return(p)

PairSpec == PairInit /\ [][PairNext]_vars

\* ---------------------------------------------------- listPaymentsByUser
\* The listing alone, over payment tables of up to MaxListed rows of
\* MaxListUsers users.  Payment rows carry their paymentDate here, the
\* column the listing is ordered by; it defaults to now() at the insert, so
\* it does not decrease along the table.

MaxListed == 3
MaxListUsers == 2
MaxDates == 2

ListUsers == 1..MaxListUsers
PaymentStatuses == {"PENDING", "COMPLETED", "FAILED"}

\* Payment i of a table, paid by user u at date d, in status st, for booking
\* i of slot i under gateway order i.
ListRow(i, u, d, st) ==
    [bookingId |-> i, userId |-> u, amountInPaise |-> 19999 * i, currency |-> "INR",
     paymentStatus |-> st, transactionId |-> "txn",
     razorpayOrderId |-> i,
     razorpayPaymentId |-> IF st = "COMPLETED" THEN i ELSE Null,
     razorpaySignature |-> IF st = "COMPLETED" THEN Hmac(i, i) ELSE <<>>,
     paymentDate |-> d]

\* The tables: for each row its user, date and status.
ListTables ==
    UNION {{t \in [1..n -> ListUsers \X (1..MaxDates) \X PaymentStatuses] :
              \A i, j \in 1..n : i < j => t[i][2] <= t[j][2]} : n \in 0..MaxListed}

ListInit ==
    \E t \in ListTables :
        LET n == Len(t) IN
        /\ payments = [i \in 1..n |-> ListRow(i, t[i][1], t[i][2], t[i][3])]
        /\ bookings = [i \in 1..n |-> [userId |-> t[i][1], slotId |-> i,
                                        bookingStatus |-> "PENDING"]]
        /\ slots = [i \in 1..n |->
                      [exists |-> TRUE, slotTime |-> i,
                       availabilityStatus |-> IF t[i][3] = "COMPLETED" THEN "BOOKED"
                                              ELSE "AVAILABLE"]]
        /\ orders = [i \in 1..n |-> [amount |-> 19999 * i]]
        /\ transitions = [i \in 1..n |-> IF t[i][3] = "COMPLETED" THEN 1 ELSE 0]
        /\ commits = [i \in 1..n |-> IF t[i][3] = "COMPLETED" THEN 1 ELSE 0]
        /\ mails = n
        /\ isBookingSlotId = Null
        /\ pc = [p \in Procs |-> "idle"]
        /\ call = [p \in Procs |-> Idle]
        /\ ret = [p \in Procs |-> NoRet]

\* The orders in which the store may come across the rows of the table.
Scans ==
    {scan \in [PaymentIds -> PaymentIds] :
        \A i, j \in PaymentIds : scan[i] = scan[j] => i = j}

\* where: {userId: userId}.
WhereUser(ids, userId) == SelectSeq(ids, LAMBDA i : payments[i].userId = userId)

RECURSIVE InsertByDateDesc(_, _)
\* Row i put into a list that is ordered by date descending.
InsertByDateDesc(i, sorted) ==
    IF sorted = <<>> THEN <<i>>
    ELSE IF payments[Head(sorted)].paymentDate >= payments[i].paymentDate
    THEN <<Head(sorted)>> \o InsertByDateDesc(i, Tail(sorted))
    ELSE <<i>> \o sorted

\* Mutant: the rows are returned as the store came across them.
Unordered(ids) == ids

RECURSIVE OrderByPaymentDateDesc(_)
\* orderBy: {paymentDate: 'desc'}.
OrderByPaymentDateDesc(ids) ==
    IF ids = <<>> THEN <<>>
    ELSE InsertByDateDesc(Head(ids), OrderByPaymentDateDesc(Tail(ids)))

\* Mutant: the amount is reported in paise.
ListedPaymentInPaise(i) ==
    [paymentId |-> i, bookingId |-> payments[i].bookingId,
     amount |-> DoubleOf(payments[i].amountInPaise * 1000),
     currency |-> payments[i].currency,
     status |-> payments[i].paymentStatus,
     transactionId |-> payments[i].transactionId,
     paymentDate |-> payments[i].paymentDate,
     razorpayOrderId |-> payments[i].razorpayOrderId]

\* The entry returned for payment i; amount is the double p.amountInPaise /
\* 100, the nearest one to that many hundredths.
ListedPayment(i) ==
    [paymentId |-> i, bookingId |-> payments[i].bookingId,
     amount |-> DoubleOf(payments[i].amountInPaise * 10),
     currency |-> payments[i].currency,
     status |-> payments[i].paymentStatus,
     transactionId |-> payments[i].transactionId,
     paymentDate |-> payments[i].paymentDate,
     razorpayOrderId |-> payments[i].razorpayOrderId]

\* listPaymentsByUser: payment.findMany({where, orderBy}) and the mapping of
\* the rows found.
ListPayments(p, userId) ==
    /\ pc[p] = "idle"
    /\ \E scan \in Scans :
          LET found == OrderByPaymentDateDesc(WhereUser(scan, userId)) IN
          Finish(p, [op |-> "listPaymentsByUser", userId |-> userId],
                 [status |-> "OK", list |-> [k \in 1..Len(found) |-> ListedPayment(found[k])]])
    /\ UNCHANGED <<store, orders, transitions, commits, mails>>

ListNext ==
    \E p \in Procs :
        \/ \E u \in ListUsers : ListPayments(p, u)
        \/ Return(p)

ListSpec == ListInit /\ [][ListNext]_vars

\* ------------------------------------------- a payment created and listed
\* createPayment and listPaymentsByUser together, from the state in which
\* one slot has been created and booked, for amounts of at most two decimal
\* places.

\* The amounts tried, in thousandths of a rupee: 0.01, 0.07, 0.29, 0.57,
\* 1.15, 4.35, 199.99 and 1000.00.
TwoDecimalAmounts == {10, 70, 290, 570, 1150, 4350, 199990, 1000000}

RoundTripNext ==
    \/ CreatePaymentSteps(TwoDecimalAmounts)
    \/ \E p \in Procs :
          \/ \E u \in Users : ListPayments(p, u)
          \/ Return(p)

RoundTripSpec == PayInit /\ [][RoundTripNext]_vars

\* ------------------------------------------- the station page (client)
\* handleBookAndPay of StationDetailsPage.  A process is one call of it, from
\* the click to its end; the answers of the server and of the checkout are
\* choices.  Of the store only the slots are kept, as the page shows them: a
\* verification that succeeded has booked the slot, and the page is
\* refreshed before that flow ends.

\* Where a flow stands: awaiting /users/me, POST /bookings, POST /payments,
\* in the open checkout, awaiting POST /payments/complete, awaiting
\* fetchStationDetails.
UiLabels == {"ui_user", "ui_booking", "ui_payment", "ui_checkout", "ui_verify", "ui_refresh"}

\* The flow of p moves on; the marker is left alone.
Flow(p, label, c) ==
    /\ pc' = [pc EXCEPT ![p] = label]
    /\ call' = [call EXCEPT ![p] = c]
    /\ UNCHANGED <<ret, isBookingSlotId>>

\* The flow of p ends: on each of its ends the code calls
\* setIsBookingSlotId(null).
FlowEnds(p) ==
    /\ pc' = [pc EXCEPT ![p] = "idle"]
    /\ call' = [call EXCEPT ![p] = Idle]
    /\ isBookingSlotId' = Null
    /\ UNCHANGED ret

\* disabled={isBooked || isCurrentlyBooking}; no button can be clicked under
\* the open checkout or while the page shows its loading state.
BookButtonEnabled(s) ==
    /\ s \in SlotIds
    /\ slots[s].availabilityStatus # "BOOKED"
    /\ isBookingSlotId # s
    /\ \A q \in Procs : pc[q] \notin {"ui_checkout", "ui_refresh"}

\* The click: setIsBookingSlotId(slot.id), then the token and SDK checks,
\* whose throw is caught at once.
HandleBookAndPay(p, s) ==
    /\ pc[p] = "idle"
    /\ BookButtonEnabled(s)
    /\ UNCHANGED <<store, orders, transitions, commits, mails>>
    /\ \E ready \in BOOLEAN :
          IF ready
          THEN /\ pc' = [pc EXCEPT ![p] = "ui_user"]
               /\ call' = [call EXCEPT ![p] = [op |-> "handleBookAndPay", slotId |-> s]]
               /\ isBookingSlotId' = s
               /\ UNCHANGED ret
          ELSE /\ isBookingSlotId' = Null
               /\ UNCHANGED <<pc, call, ret>>

\* One of the three fetches before the checkout answers: the flow goes on to
\* the next step, or the catch block ends it.
FetchAnswers(p, label, next) ==
    /\ pc[p] = label
    /\ UNCHANGED <<store, orders, transitions, commits, mails>>
    /\ \E ok \in BOOLEAN : IF ok THEN Flow(p, next, call[p]) ELSE FlowEnds(p)

UserFetched(p) == FetchAnswers(p, "ui_user", "ui_booking")

BookingCreated(p) == FetchAnswers(p, "ui_booking", "ui_payment")

\* POST /payments answered; on success rzpInstance.open() opens the checkout.
OrderCreated(p) == FetchAnswers(p, "ui_payment", "ui_checkout")

\* rzpInstance.on("payment.failed"): an attempt failed inside the checkout,
\* which stays open for another attempt.
PaymentFailed(p) ==
    /\ pc[p] = "ui_checkout"
    /\ isBookingSlotId' = Null
    /\ UNCHANGED <<store, orders, transitions, commits, mails, pc, call, ret>>

\* modal.ondismiss: the user closed the checkout.
CheckoutDismissed(p) ==
    /\ pc[p] = "ui_checkout"
    /\ UNCHANGED <<store, orders, transitions, commits, mails>>
    /\ FlowEnds(p)

\* options.handler is called with the gateway's response and posts it to
\* /payments/complete.
CheckoutSucceeded(p) ==
    /\ pc[p] = "ui_checkout"
    /\ UNCHANGED <<store, orders, transitions, commits, mails>>
    /\ Flow(p, "ui_verify", call[p])

\* /payments/complete answered: on success the handler refreshes the page,
\* otherwise its finally block ends the flow.
PaymentVerified(p) == FetchAnswers(p, "ui_verify", "ui_refresh")

\* fetchStationDetails returned; the slot now shows as BOOKED; finally.
StationRefreshed(p) ==
    /\ pc[p] = "ui_refresh"
    /\ slots' = [slots EXCEPT ![call[p].slotId].availabilityStatus = "BOOKED"]
    /\ UNCHANGED <<bookings, payments, orders, transitions, commits, mails>>
    /\ FlowEnds(p)

\* The page has loaded a station with two slots, both AVAILABLE.
PageInit ==
    /\ slots = [s \in 1..2 |-> [exists |-> TRUE, slotTime |-> s,
                                 availabilityStatus |-> "AVAILABLE"]]
    /\ bookings = <<>>
    /\ payments = <<>>
    /\ orders = <<>>
    /\ pc = [p \in Procs |-> "idle"]
    /\ call = [p \in Procs |-> Idle]
    /\ ret = [p \in Procs |-> NoRet]
    /\ transitions = <<0, 0>>
    /\ commits = <<>>
    /\ mails = 0
    /\ isBookingSlotId = Null

PageNext ==
    \E p \in Procs :
        \/ \E s \in 1..2 : HandleBookAndPay(p, s)
        \/ UserFetched(p)
        \/ BookingCreated(p)
        \/ OrderCreated(p)
        \/ PaymentFailed(p)
        \/ CheckoutDismissed(p)
        \/ CheckoutSucceeded(p)
        \/ PaymentVerified(p)
        \/ StationRefreshed(p)

PageSpec == PageInit /\ [][PageNext]_vars

\* ================================================================ claims

BookingsOf(s) == {b \in BookingIds : bookings[b].slotId = s}
PaymentsOf(b) == {i \in PaymentIds : payments[i].bookingId = b}

\* C1: in every reachable state each slot is referenced by at most one
\* Booking, whatever createBooking calls were made and however they
\* interleaved.
C1_OneBookingPerSlot ==
    \A s \in 1..MaxSlots : Cardinality(BookingsOf(s)) <= 1

\* C1 witness: a createBooking was refused by the store's constraint while
\* the slot holds its one booking.
C1_Witness ==
    \E p \in Procs :
        /\ pc[p] = "done"
        /\ call[p].op = "createBooking"
        /\ ret[p].status = "CONFLICT"
        /\ Cardinality(BookingsOf(call[p].slotId)) = 1

\* C2: every slot whose status is BOOKED is referenced by a booking whose
\* payment is COMPLETED.
C2_BookedOnlyWithCompletedPayment ==
    \A s \in SlotIds :
        slots[s].exists /\ slots[s].availabilityStatus = "BOOKED" =>
            \E b \in BookingsOf(s) : \E i \in PaymentsOf(b) :
                payments[i].paymentStatus = "COMPLETED"

\* C3: a payment's status only moves PENDING -> COMPLETED or PENDING ->
\* FAILED; COMPLETED and FAILED are never left.
C3_StatusNeverReverses ==
    [][\A i \in PaymentIds :
          /\ payments[i].paymentStatus = "COMPLETED"
                => payments'[i].paymentStatus = "COMPLETED"
          /\ payments[i].paymentStatus = "FAILED"
                => payments'[i].paymentStatus = "FAILED"]_vars

\* A finished or running completePayment request whose arguments are the
\* valid ones for its payment: the stored order id and the HMAC of that order
\* id and the supplied payment id.
ValidCallback(c) ==
    /\ c.op = "completePayment"
    /\ c.paymentId \in PaymentIds
    /\ c.rpId # Null
    /\ c.orderId = payments[c.paymentId].razorpayOrderId
    /\ c.sig = <<c.orderId, c.rpId>>

\* Process p takes the step that ends a completePayment request.
EndsCompletePayment(p) ==
    /\ pc[p] # "done"
    /\ pc'[p] = "done"
    /\ call'[p].op = "completePayment"

\* Two finished completePayment requests with identical valid arguments that
\* both succeeded.
TwinSuccess(p, q) ==
    /\ p # q
    /\ pc[p] = "done" /\ pc[q] = "done"
    /\ ValidCallback(call[p]) /\ ValidCallback(call[q])
    /\ call[p].paymentId = call[q].paymentId
    /\ call[p].rpId = call[q].rpId
    /\ ret[p].status = "OK" /\ ret[q].status = "OK"

\* A step of a valid callback that finds its payment already COMPLETED by a
\* callback with the same arguments changes no stored state and, unless the
\* store fails, answers with the payment's bookingId and slotId.
RepeatedCallbackIsNoOp ==
    \A p \in Procs :
        (/\ EndsCompletePayment(p)
         /\ ValidCallback(call'[p])
         /\ payments[call'[p].paymentId].paymentStatus = "COMPLETED"
         /\ payments[call'[p].paymentId].razorpayPaymentId = call'[p].rpId)
        => /\ store' = store
           /\ transitions' = transitions
           /\ ret'[p].status \in {"OK", "INTERNAL_SERVER_ERROR"}
           /\ ret'[p].status = "OK" =>
                /\ ret'[p].bookingId = payments[call'[p].paymentId].bookingId
                /\ ret'[p].slotId = bookings[ret'[p].bookingId].slotId

\* C4 (as stated): two completePayment calls with identical valid arguments
\* on a payment that starts PENDING return the same success payload.
C4_SamePayload ==
    \A p, q \in Procs : TwinSuccess(p, q) => ret[p] = ret[q]

\* C4 (amended): the slot makes exactly one transition to BOOKED, the
\* repeated call changes no stored state, and both calls succeed with the
\* same bookingId and slotId (the message of the payload differs).
C4_IdempotentCompletion ==
    /\ [](\A p, q \in Procs : TwinSuccess(p, q) =>
            /\ ret[p].bookingId = ret[q].bookingId
            /\ ret[p].slotId = ret[q].slotId
            /\ transitions[ret[p].slotId] = 1)
    /\ [][RepeatedCallbackIsNoOp]_vars

\* C4 witness: the first call committed, the identical second call took the
\* idempotent path; the slot was booked once.
C4_Witness ==
    \E p, q \in Procs :
        /\ TwinSuccess(p, q)
        /\ ret[p].message = "Payment already verified and completed."
        /\ ret[q].message # ret[p].message
        /\ payments[call[p].paymentId].paymentStatus = "COMPLETED"
        /\ slots[ret[p].slotId].availabilityStatus = "BOOKED"
        /\ transitions[ret[p].slotId] = 1

\* C5: of two completePayment calls that both loaded the payment while it
\* was PENDING only one performs the commit: the transaction is applied at
\* most once per payment, and only while the payment is still PENDING.
C5_SingleCommit ==
    /\ [](\A i \in PaymentIds : commits[i] <= 1)
    /\ [][\A i \in PaymentIds :
            commits'[i] > commits[i] => payments[i].paymentStatus = "PENDING"]_vars

SlotOfPayment(i) == bookings[payments[i].bookingId].slotId

C8_OneWinner ==
    /\ [][\A p \in Procs :
            (pc[p] = "booking_insert" /\ pc'[p] # "booking_insert") =>
                IF BookingsOf(call[p].slotId) = {}
                THEN /\ ret'[p].status = "OK"
                     /\ Len(bookings') = Len(bookings) + 1
                     /\ bookings'[Len(bookings')].slotId = call[p].slotId
                     /\ ret'[p].bookingId = Len(bookings')
                ELSE /\ ret'[p].status = "CONFLICT"
                     /\ bookings' = bookings]_vars
    /\ [](\A p, q \in Procs :
            (/\ p # q
             /\ pc[p] = "done" /\ pc[q] = "done"
             /\ call[p].op = "createBooking" /\ call[q].op = "createBooking"
             /\ call[p].slotId = call[q].slotId)
            => ~(ret[p].status = "OK" /\ ret[q].status = "OK"))

\* C8 witness: two createBooking calls for the same slot have both ended,
\* one with the Booking, the other with CONFLICT.
C8_Witness ==
    \E p, q \in Procs :
        /\ pc[p] = "done" /\ pc[q] = "done"
        /\ call[p].op = "createBooking" /\ call[q].op = "createBooking"
        /\ call[p].slotId = call[q].slotId
        /\ ret[p].status = "OK" /\ ret[q].status = "CONFLICT"
        /\ BookingsOf(call[p].slotId) = {ret[p].bookingId}

\* C9: a slot that is BOOKED never becomes AVAILABLE again, and a slot makes
\* the transition AVAILABLE -> BOOKED at most once.
C9_BookedIsFinal ==
    /\ [][\A s \in SlotIds :
            slots[s].availabilityStatus = "BOOKED"
                => slots'[s].availabilityStatus = "BOOKED"]_vars
    /\ [](\A s \in SlotIds : transitions[s] <= 1)

\* C9 witness: the slot is BOOKED and a later verification failure of its
\* payment has been handled.
C9_Witness ==
    \E p \in Procs :
        /\ pc[p] = "done"
        /\ call[p].op = "completePayment"
        /\ ret[p].message = "Invalid payment signature."
        /\ slots[call[p].slotId].availabilityStatus = "BOOKED"
        /\ transitions[call[p].slotId] = 1

PaymentOps == {"createPayment", "completePayment"}

\* C10: no step of createPayment or completePayment changes a Booking; the
\* successful commit leaves the payment COMPLETED and the slot BOOKED with
\* the booking's status as it was.
C10_BookingStatusUntouched ==
    [][\A p \in Procs :
          /\ (pc'[p] # pc[p] /\ (call[p].op \in PaymentOps \/ call'[p].op \in PaymentOps))
             => bookings' = bookings
          /\ (pc[p] = "pay_commit" /\ pc'[p] = "done" /\ ret'[p].status = "OK")
             => /\ payments'[call[p].paymentId].paymentStatus = "COMPLETED"
                /\ slots'[call[p].slotId].availabilityStatus = "BOOKED"
                /\ bookings'[call[p].bookingId].bookingStatus
                      = bookings[call[p].bookingId].bookingStatus]_vars

\* C10 witness: after a successful completion the payment is COMPLETED, the
\* slot BOOKED and the booking still PENDING.
C10_Witness ==
    \E p \in Procs :
        /\ pc[p] = "done"
        /\ call[p].op = "completePayment"
        /\ ret[p].status = "OK"
        /\ payments[call[p].paymentId].paymentStatus = "COMPLETED"
        /\ slots[ret[p].slotId].availabilityStatus = "BOOKED"
        /\ bookings[ret[p].bookingId].bookingStatus = "PENDING"

\* Process p takes the first step of a request of operation op.
Starts(p, op) ==
    /\ pc[p] = "idle"
    /\ pc'[p] # "idle"
    /\ call'[p].op = op

\* k thousandths of a rupee in paise, rounded half-up in decimal arithmetic.
RoundHalfUp(k) == (k + 5) \div 10

\* C11: createPayment with a valid amount against a booking that is APPROVED
\* or REJECTED fails with BAD_REQUEST (InvalidState) in its first step; no
\* Payment row, no gateway order, no notification.
C11_NonPendingBookingRefused ==
    [][\A p \in Procs :
          (/\ Starts(p, "createPayment")
           /\ RoundHalfUp(call'[p].amount) > 0
           /\ call'[p].bookingId \in BookingIds
           /\ bookings[call'[p].bookingId].bookingStatus \in {"APPROVED", "REJECTED"})
          => /\ pc'[p] = "done"
             /\ ret'[p].status = "BAD_REQUEST"
             /\ ret'[p].message = "Booking status does not allow payment."
             /\ payments' = payments
             /\ orders' = orders
             /\ mails' = mails]_vars

\* C11 witness: a createPayment against an APPROVED booking was refused; the
\* booking has no payment, the gateway no order, no mail went out.
C11_Witness ==
    \E p \in Procs :
        /\ pc[p] = "done"
        /\ call[p].op = "createPayment"
        /\ ret[p].message = "Booking status does not allow payment."
        /\ bookings[call[p].bookingId].bookingStatus = "APPROVED"
        /\ PaymentsOf(call[p].bookingId) = {}
        /\ orders = <<>>
        /\ mails = 0

\* C12: completePayment on a payment that is FAILED is rejected with
\* BAD_REQUEST (InvalidState) in its first step, whatever order id and
\* signature it carries, and changes neither payments nor slots.
C12_FailedPaymentRejected ==
    [][\A p \in Procs :
          (/\ Starts(p, "completePayment")
           /\ call'[p].rpId # Null
           /\ call'[p].paymentId \in PaymentIds
           /\ payments[call'[p].paymentId].paymentStatus = "FAILED")
          => /\ pc'[p] = "done"
             /\ ret'[p].status = "BAD_REQUEST"
             /\ ret'[p].message = "Payment cannot be completed in its current state"
             /\ payments' = payments
             /\ slots' = slots]_vars

\* C12 witness: a callback carrying another order id than the stored one was
\* rejected for the state of the payment, which is FAILED.
C12_Witness ==
    \E p \in Procs :
        /\ pc[p] = "done"
        /\ call[p].op = "completePayment"
        /\ call[p].paymentId \in PaymentIds
        /\ payments[call[p].paymentId].paymentStatus = "FAILED"
        /\ payments[call[p].paymentId].razorpayOrderId # call[p].orderId
        /\ ret[p].message = "Payment cannot be completed in its current state"

\* C13: completePayment on a PENDING payment with an order id other than the
\* stored one is rejected with CONFLICT in its first step (before any
\* signature check: the payment is not marked FAILED) and changes nothing.
C13_OrderMismatchIsConflict ==
    [][\A p \in Procs :
          (/\ Starts(p, "completePayment")
           /\ call'[p].rpId # Null
           /\ call'[p].paymentId \in PaymentIds
           /\ payments[call'[p].paymentId].paymentStatus = "PENDING"
           /\ payments[call'[p].paymentId].razorpayOrderId # call'[p].orderId)
          => /\ pc'[p] = "done"
             /\ ret'[p].status = "CONFLICT"
             /\ payments' = payments
             /\ slots' = slots]_vars

\* A finished completePayment request whose transaction failed.
CommitFailed(p) ==
    /\ pc[p] = "done"
    /\ call[p].op = "completePayment"
    /\ ret[p].status = "INTERNAL_SERVER_ERROR"
    /\ ret[p].message = "Payment verified, but failed to update booking/slot status in database."

\* C14: a transaction that fails after the signature was verified ends the
\* request with INTERNAL_SERVER_ERROR, is not applied or tried again, and
\* leaves payments and slots as they were (a PENDING payment PENDING); while
\* the payment is PENDING a later call with the same arguments passes every
\* check and reaches the transaction again.
C14_CommitFailureIsFatalAndClean ==
    [][/\ \A p \in Procs :
            (pc[p] = "pay_commit" /\ pc'[p] # "pay_commit" /\ ret'[p].status # "OK")
            => /\ pc'[p] = "done"
               /\ ret'[p].status = "INTERNAL_SERVER_ERROR"
               /\ payments' = payments
               /\ slots' = slots
               /\ commits' = commits
       /\ \A p, q \in Procs :
            (/\ CommitFailed(p)
             /\ Starts(q, "completePayment")
             /\ call'[q] = [call[p] EXCEPT !.bookingId = call'[q].bookingId,
                                           !.slotId = call'[q].slotId]
             /\ payments[call[p].paymentId].paymentStatus = "PENDING")
            => pc'[q] = "pay_commit"]_vars

\* C14 witness: the transaction of one call failed; the later call with the
\* same arguments completed the payment and booked the slot.
C14_Witness ==
    \E p, q \in Procs :
        /\ CommitFailed(p)
        /\ pc[q] = "done"
        /\ call[q] = call[p]
        /\ ret[q].status = "OK"
        /\ ret[q].message # "Payment already verified and completed."
        /\ payments[call[p].paymentId].paymentStatus = "COMPLETED"
        /\ commits[call[p].paymentId] = 1
        /\ slots[call[p].slotId].availabilityStatus = "BOOKED"

\* C15: when SendMail fails the request ends with an error and the payments
\* are left as they were: the row payment.create inserted (PENDING, with the
\* gateway's order id) is still there; no step ever removes a Payment row or
\* changes its order id.
C15_MailFailureKeepsPayment ==
    [][/\ \A p \in Procs :
            (pc[p] = "pay_insert" /\ pc'[p] = "pay_mail")
            => /\ payments'[call'[p].paymentId].paymentStatus = "PENDING"
               /\ payments'[call'[p].paymentId].razorpayOrderId = call[p].orderId
       /\ \A p \in Procs :
            (pc[p] = "pay_mail" /\ pc'[p] # "pay_mail" /\ ret'[p].status # "OK")
            => /\ pc'[p] = "done"
               /\ ret'[p].status = "INTERNAL_SERVER_ERROR"
               /\ payments' = payments
       /\ Len(payments') >= Len(payments)
       /\ \A i \in PaymentIds :
            payments'[i].razorpayOrderId = payments[i].razorpayOrderId]_vars

\* C15 witness: the mail failed, the caller got the error, and the payment is
\* stored, PENDING, with the order id the gateway issued.
C15_Witness ==
    \E p \in Procs :
        /\ pc[p] = "done"
        /\ call[p].op = "createPayment"
        /\ ret[p].message = "Error sending email"
        /\ payments[call[p].paymentId].paymentStatus = "PENDING"
        /\ payments[call[p].paymentId].razorpayOrderId = call[p].orderId
        /\ payments[call[p].paymentId].bookingId = call[p].bookingId

\* C16: every booking has at most one Payment; a createPayment that reaches
\* payment.create for a booking that already has a payment fails with
\* CONFLICT and adds no row, also when the other payment was inserted by a
\* call racing with it.
C16_OnePaymentPerBooking ==
    /\ [](\A b \in 1..MaxBookings : Cardinality(PaymentsOf(b)) <= 1)
    /\ [][\A p \in Procs :
            (/\ pc[p] = "pay_insert"
             /\ pc'[p] # "pay_insert"
             /\ PaymentsOf(call[p].bookingId) # {})
            => /\ pc'[p] = "done"
               /\ ret'[p].status = "CONFLICT"
               /\ payments' = payments]_vars

\* C16 witness: two createPayment calls for the same booking raced (q got
\* its gateway order first, p inserted first): p has the booking's one
\* payment, q ended with CONFLICT.
C16_Witness ==
    \E p, q \in Procs :
        /\ call[p].op = "createPayment" /\ call[q].op = "createPayment"
        /\ call[p].bookingId = call[q].bookingId
        /\ call[q].orderId # Null /\ call[p].orderId # Null
        /\ call[q].orderId < call[p].orderId
        /\ call[p].paymentId # Null
        /\ pc[q] = "done"
        /\ ret[q].status = "CONFLICT"
        /\ PaymentsOf(call[p].bookingId) = {call[p].paymentId}

\* C17: createPayment with an amount that is zero, negative or rounds to no
\* paise fails with BAD_REQUEST (InvalidAmount) in its first step, whether
\* the booking exists or not: no gateway order, no Payment row, no mail.
C17_InvalidAmountRefused ==
    [][\A p \in Procs :
          (/\ Starts(p, "createPayment")
           /\ (call'[p].amount <= 0 \/ RoundHalfUp(call'[p].amount) <= 0))
          => /\ pc'[p] = "done"
             /\ ret'[p].status = "BAD_REQUEST"
             /\ ret'[p].message \in {"Invalid payment amount provided.",
                                     "Amount must be positive."}
             /\ payments' = payments
             /\ orders' = orders
             /\ mails' = mails]_vars

\* C17 witness: a positive amount that rounds to no paise (0.004) was refused
\* for a booking that does not exist: the amount is checked before the
\* booking is loaded.
C17_Witness ==
    \E p \in Procs :
        /\ pc[p] = "done"
        /\ call[p].op = "createPayment"
        /\ call[p].amount = 4
        /\ call[p].bookingId \notin BookingIds
        /\ ret[p].status = "BAD_REQUEST"
        /\ ret[p].message = "Amount must be positive."
        /\ orders = <<>> /\ payments = <<>> /\ mails = 0

\* C18: the amount sent to the gateway and the amount stored are the same
\* integer, the amount in rupees times 100 rounded half-up (199.995 becomes
\* 20000).
C18_HalfUpConversion ==
    /\ \A i \in PaymentIds :
          payments[i].amountInPaise = orders[payments[i].razorpayOrderId].amount
    /\ \A p \in Procs :
          (call[p].op = "createPayment" /\ call[p].orderId # Null)
          => orders[call[p].orderId].amount = RoundHalfUp(call[p].amount)

\* C19: remove refuses with CONFLICT when a booking references the slot, and
\* in every reachable state every Booking references a slot that exists.
C19_NoBookingOfDeletedSlot ==
    /\ [][\A p \in Procs :
            (/\ Starts(p, "removeSlot")
             /\ BookingsOf(call'[p].slotId) # {})
            => /\ pc'[p] = "done"
               /\ ret'[p].status = "CONFLICT"
               /\ slots' = slots]_vars
    /\ [](\A b \in BookingIds : slots[bookings[b].slotId].exists)

\* C20: when razorpay.orders.create fails, a BAD_REQUEST_ERROR of the gateway
\* is reported with a 4xx status and every other failure with a 5xx status.
C20_GatewayErrorClasses ==
    [][\A p \in Procs :
          (pc[p] = "pay_order" /\ pc'[p] = "done")
          => IF call'[p].error.code = "BAD_REQUEST_ERROR"
             THEN HttpStatus[ret'[p].status] \div 100 = 4
             ELSE HttpStatus[ret'[p].status] \div 100 = 5]_vars

\* C21: createBooking inserts a Booking with status PENDING and leaves the
\* slots alone; as long as no payment of its booking was committed the slot
\* is AVAILABLE, and the lookup of another createBooking for it still passes.
C21_BookingLeavesSlotAvailable ==
    /\ [][/\ \A p \in Procs :
               (pc[p] = "booking_insert" /\ pc'[p] # "booking_insert")
               => /\ slots' = slots
                  /\ ret'[p].status = "OK" =>
                       /\ Len(bookings') = Len(bookings) + 1
                       /\ bookings'[ret'[p].bookingId].bookingStatus = "PENDING"
                       /\ bookings'[ret'[p].bookingId].slotId = call[p].slotId
          /\ \A q \in Procs :
               (/\ Starts(q, "createBooking")
                /\ call'[q].slotId \in SlotIds
                /\ slots[call'[q].slotId].exists)
               => pc'[q] = "booking_insert"]_vars
    /\ [](\A s \in SlotIds :
            (\A b \in BookingsOf(s) : \A i \in PaymentsOf(b) : commits[i] = 0)
            => slots[s].availabilityStatus = "AVAILABLE")

\* C21 witness: a booking is PENDING with its payment PENDING, the slot is
\* AVAILABLE and another createBooking for it has passed the lookup.
C21_Witness ==
    \E b \in BookingIds, q \in Procs :
        /\ bookings[b].bookingStatus = "PENDING"
        /\ \E i \in PaymentsOf(b) : payments[i].paymentStatus = "PENDING"
        /\ slots[bookings[b].slotId].exists
        /\ slots[bookings[b].slotId].availabilityStatus = "AVAILABLE"
        /\ pc[q] = "booking_insert"
        /\ call[q].slotId = bookings[b].slotId

\* C22: after a payment has become FAILED the slot of its booking can still
\* be booked: the store accepts a new Payment for that booking or a new
\* Booking for that slot.
C22_FailedPaymentCanBeReplaced ==
    \A i \in PaymentIds :
        payments[i].paymentStatus = "FAILED"
        => \/ PaymentBookingUnique(payments, payments[i].bookingId)
           \/ BookingSlotUnique(bookings, SlotOfPayment(i))

\* C23: a payment's status is changed only by a step of completePayment (the
\* FAILED write or the transaction): no other operation touches it and no
\* step expires or cancels a PENDING payment.
C23_OnlyCompletePaymentChangesStatus ==
    [][\A i \in PaymentIds :
          payments'[i].paymentStatus # payments[i].paymentStatus
          => \E p \in Procs :
                /\ pc[p] \in {"pay_fail", "pay_commit"}
                /\ pc'[p] = "done"
                /\ call[p].op = "completePayment"
                /\ call[p].paymentId = i]_vars

\* C23 witness: the payment is still PENDING after its createPayment has
\* ended, the admin has decided on the booking and two other requests (a slot
\* update and a second createPayment) have ended; no completePayment is
\* under way.
C23_Witness ==
    \E i \in PaymentIds, p, q \in Procs :
        /\ payments[i].paymentStatus = "PENDING"
        /\ bookings[payments[i].bookingId].bookingStatus = "APPROVED"
        /\ p # q
        /\ pc[p] = "done" /\ call[p].op = "updateSlot" /\ ret[p].status = "OK"
        /\ pc[q] = "done" /\ call[q].op = "createPayment"
        /\ call[q].paymentId # i

\* C24: when payment.create fails after the gateway order was created, the
\* request ends with an error (CONFLICT or INTERNAL_SERVER_ERROR), no row is
\* inserted, no notification is sent, and the order stays at the gateway
\* with no Payment that carries its id; SendMail is only ever called for a
\* row that was inserted.
C24_InsertFailureOrphansOrder ==
    /\ [][\A p \in Procs :
            (pc[p] = "pay_insert" /\ pc'[p] # "pay_insert" /\ pc'[p] # "pay_mail")
            => /\ pc'[p] = "done"
               /\ ret'[p].status \in {"CONFLICT", "INTERNAL_SERVER_ERROR"}
               /\ payments' = payments
               /\ mails' = mails
               /\ orders' = orders]_vars
    /\ [](\A p \in Procs :
            (/\ pc[p] = "done"
             /\ call[p].op = "createPayment"
             /\ call[p].orderId # Null
             /\ call[p].paymentId = Null)
            => /\ call[p].orderId \in 1..Len(orders)
               /\ \A i \in PaymentIds : payments[i].razorpayOrderId # call[p].orderId)
    /\ [](/\ mails <= Len(payments)
          /\ \A p \in Procs : pc[p] = "pay_mail" => call[p].paymentId \in PaymentIds)

\* C24 witness: the store failed at payment.create; the gateway holds the
\* order, no Payment exists and no mail was sent.
C24_Witness ==
    \E p \in Procs :
        /\ pc[p] = "done"
        /\ call[p].op = "createPayment"
        /\ ret[p].status = "INTERNAL_SERVER_ERROR"
        /\ ret[p].message = "Database error"
        /\ call[p].orderId \in 1..Len(orders)
        /\ payments = <<>>
        /\ mails = 0

\* The labels of createPayment in the order of its awaits.
CreatePaymentLabels == <<"idle", "pay_order", "pay_insert", "pay_mail">>

\* C29: createPayment runs its steps in the order amount and booking checks,
\* gateway order, insert, notification: each effect is produced by the step
\* that follows the previous one, a request only moves to the next step or
\* ends, and it ends with every error; when the gateway fails no row is
\* inserted and no notification is sent.
C29_StepsInOrder ==
    [][/\ \A p \in Procs :
            (pc'[p] # pc[p] /\ pc[p] # "done" /\ call'[p].op = "createPayment")
            => /\ \E k \in 1..4 :
                    /\ pc[p] = CreatePaymentLabels[k]
                    /\ pc'[p] \in {"done"} \cup {CreatePaymentLabels[j] : j \in {k + 1} \cap 1..4}
               /\ pc'[p] = "pay_order" =>
                    /\ call'[p].amountPaise > 0
                    /\ bookings[call'[p].bookingId].bookingStatus = "PENDING"
                    /\ <<orders, payments, mails>>' = <<orders, payments, mails>>
               /\ pc'[p] = "pay_insert" =>
                    /\ orders' = Append(orders, [amount |-> call[p].amountPaise])
                    /\ <<payments, mails>>' = <<payments, mails>>
               /\ pc'[p] = "pay_mail" =>
                    /\ Len(payments') = Len(payments) + 1
                    /\ <<orders, mails>>' = <<orders, mails>>
               /\ (pc'[p] = "done" /\ pc[p] # "pay_mail") =>
                    /\ ret'[p].status # "OK"
                    /\ <<orders, payments, mails>>' = <<orders, payments, mails>>
               /\ (pc'[p] = "done" /\ pc[p] = "pay_mail") =>
                    /\ mails' = mails + 1
                    /\ <<orders, payments>>' = <<orders, payments>>
       /\ <<orders, Len(payments), mails>>' # <<orders, Len(payments), mails>>
            => \E p \in Procs : pc'[p] # pc[p] /\ call'[p].op = "createPayment"]_vars

\* C29 witness: the gateway refused the order; the request ended with the
\* gateway's error, no Payment row exists and no mail was sent.
C29_Witness ==
    \E p \in Procs :
        /\ pc[p] = "done"
        /\ call[p].op = "createPayment"
        /\ call[p].error # NoAnswer
        /\ ret[p].status # "OK"
        /\ call[p].orderId = Null
        /\ orders = <<>>
        /\ payments = <<>>
        /\ mails = 0

\* C30: a COMPLETED payment has a gateway payment id and a signature, a
\* PENDING payment has neither; the two fields are written only by the
\* transaction that sets COMPLETED.
C30_IdsRecordedWithCompletion ==
    /\ [](\A i \in PaymentIds :
            /\ payments[i].paymentStatus = "COMPLETED"
                 => /\ payments[i].razorpayPaymentId # Null
                    /\ payments[i].razorpaySignature # <<>>
            /\ payments[i].paymentStatus = "PENDING"
                 => /\ payments[i].razorpayPaymentId = Null
                    /\ payments[i].razorpaySignature = <<>>)
    /\ [][\A i \in PaymentIds :
            (\/ payments'[i].razorpayPaymentId # payments[i].razorpayPaymentId
             \/ payments'[i].razorpaySignature # payments[i].razorpaySignature)
            => /\ payments'[i].paymentStatus = "COMPLETED"
               /\ commits'[i] = commits[i] + 1]_vars

\* C30 witness: a completed payment carries the payment id and the signature
\* of the callback that completed it.
C30_Witness ==
    \E i \in PaymentIds, p \in Procs :
        /\ payments[i].paymentStatus = "COMPLETED"
        /\ pc[p] = "done"
        /\ call[p].op = "completePayment"
        /\ call[p].paymentId = i
        /\ ret[p].status = "OK"
        /\ payments[i].razorpayPaymentId = call[p].rpId
        /\ payments[i].razorpaySignature = call[p].sig

\* A completePayment request of p that starts in this step with no argument
\* missing.
Verifies(p) ==
    /\ Starts(p, "completePayment")
    /\ call'[p].paymentId # Null
    /\ call'[p].orderId # Null
    /\ call'[p].rpId # Null
    /\ call'[p].sig # <<>>

\* The payment's booking is missing or carries no slot reference.
LinkMissing(i) ==
    \/ payments[i].bookingId \notin BookingIds
    \/ bookings[payments[i].bookingId].slotId = Null

\* C25: completePayment answers NOT_FOUND when no payment has the given id
\* and a server error (5xx, not 4xx) when the payment's booking or the
\* booking's slot reference is missing; in both cases the request ends there
\* and no payment or slot is changed.
C25_MissingPaymentOrLink ==
    [][\A p \in Procs :
          Verifies(p) =>
            /\ call'[p].paymentId \notin PaymentIds
                 => /\ pc'[p] = "done"
                    /\ ret'[p].status = "NOT_FOUND"
                    /\ <<payments, slots, bookings>>' = <<payments, slots, bookings>>
            /\ (call'[p].paymentId \in PaymentIds /\ LinkMissing(call'[p].paymentId))
                 => /\ pc'[p] = "done"
                    /\ ret'[p].status = "INTERNAL_SERVER_ERROR"
                    /\ HttpStatus[ret'[p].status] >= 500
                    /\ <<payments, slots, bookings>>' = <<payments, slots, bookings>>]_vars

\* C25 witness: one callback named a payment that does not exist, another a
\* payment whose booking link is missing; both were refused and the payment
\* and the slot are as they were.
C25_Witness ==
    \E p, q \in Procs :
        /\ pc[p] = "done" /\ call[p].op = "completePayment"
        /\ call[p].paymentId \notin PaymentIds
        /\ ret[p].status = "NOT_FOUND"
        /\ pc[q] = "done" /\ call[q].op = "completePayment"
        /\ call[q].paymentId \in PaymentIds
        /\ LinkMissing(call[q].paymentId)
        /\ ret[q].status = "INTERNAL_SERVER_ERROR"
        /\ payments[call[q].paymentId].paymentStatus = "PENDING"
        /\ slots[1].availabilityStatus = "AVAILABLE"

\* C26: a callback on a PENDING payment proceeds to the commit if and only
\* if the supplied order id equals the stored one and the supplied signature
\* is the HMAC of the stored order id and the supplied payment id; a payment
\* is completed, and a slot booked, only by the commit of such a callback,
\* and a commit that succeeds has completed the payment and booked the slot.
C26_CommitIffVerified ==
    /\ [][\A p \in Procs :
            (/\ Verifies(p)
             /\ call'[p].paymentId \in PaymentIds
             /\ ~LinkMissing(call'[p].paymentId)
             /\ payments[call'[p].paymentId].paymentStatus = "PENDING")
            => LET stored == payments[call'[p].paymentId].razorpayOrderId IN
               /\ pc'[p] = "pay_commit"
                    <=> /\ call'[p].orderId = stored
                        /\ call'[p].sig = Hmac(stored, call'[p].rpId)
               /\ <<payments, slots, bookings, commits>>'
                    = <<payments, slots, bookings, commits>>]_vars
    /\ [][(\/ commits' # commits
           \/ \E i \in PaymentIds : /\ payments'[i].paymentStatus = "COMPLETED"
                                    /\ payments[i].paymentStatus # "COMPLETED"
           \/ \E s \in SlotIds : /\ slots'[s].availabilityStatus = "BOOKED"
                                 /\ slots[s].availabilityStatus # "BOOKED")
          => \E p \in Procs :
                LET i == call[p].paymentId IN
                /\ pc[p] = "pay_commit"
                /\ pc'[p] = "done"
                /\ ret'[p].status = "OK"
                /\ call[p].orderId = payments[i].razorpayOrderId
                /\ call[p].sig = Hmac(payments[i].razorpayOrderId, call[p].rpId)
                /\ payments'[i].paymentStatus = "COMPLETED"
                /\ slots'[bookings[payments[i].bookingId].slotId].availabilityStatus = "BOOKED"]_vars
    /\ [][\A p \in Procs :
            (pc[p] = "pay_commit" /\ pc'[p] = "done" /\ ret'[p].status = "OK")
            => /\ payments'[call[p].paymentId].paymentStatus = "COMPLETED"
               /\ slots'[call[p].slotId].availabilityStatus = "BOOKED"
               /\ commits'[call[p].paymentId] = commits[call[p].paymentId] + 1]_vars

\* C26 witness: one callback with the stored order id and the right signature
\* has committed, and another whose signature was made for a different order
\* id was refused without a commit of its own.
C26_Witness ==
    \E p, q \in Procs :
        /\ pc[p] = "done" /\ call[p].op = "completePayment" /\ ret[p].status = "OK"
        /\ call[p].paymentId \in PaymentIds
        /\ payments[call[p].paymentId].paymentStatus = "COMPLETED"
        /\ call[p].orderId = payments[call[p].paymentId].razorpayOrderId
        /\ call[p].sig = Hmac(call[p].orderId, call[p].rpId)
        /\ slots[1].availabilityStatus = "BOOKED"
        /\ commits[call[p].paymentId] = 1
        /\ pc[q] = "done" /\ call[q].op = "completePayment"
        /\ call[q].paymentId = call[p].paymentId
        /\ call[q].orderId # Null /\ call[q].rpId # Null /\ call[q].sig # <<>>
        /\ call[q].sig # Hmac(call[p].orderId, call[q].rpId)
        /\ ret[q].status = "BAD_REQUEST"

\* C28: a callback with no argument missing on a payment that is already
\* COMPLETED ends at once with success and the payment's bookingId and
\* slotId, changes nothing and commits nothing, whatever order id and
\* signature it carries.
C28_CompletedIsIdempotent ==
    [][\A p \in Procs :
          (/\ Verifies(p)
           /\ call'[p].paymentId \in PaymentIds
           /\ ~LinkMissing(call'[p].paymentId)
           /\ payments[call'[p].paymentId].paymentStatus = "COMPLETED")
          => LET payment == payments[call'[p].paymentId] IN
             /\ pc'[p] = "done"
             /\ ret'[p] = Ok("Payment already verified and completed.", payment.bookingId,
                             bookings[payment.bookingId].slotId)
             /\ <<store, orders, transitions, commits, mails>>'
                  = <<store, orders, transitions, commits, mails>>]_vars

\* C28 witness: a callback whose order id is not the stored one and whose
\* signature does not verify was answered with success on a completed
\* payment.
C28_Witness ==
    \E p \in Procs :
        /\ pc[p] = "done" /\ call[p].op = "completePayment"
        /\ call[p].paymentId \in PaymentIds
        /\ payments[call[p].paymentId].paymentStatus = "COMPLETED"
        /\ call[p].orderId # payments[call[p].paymentId].razorpayOrderId
        /\ call[p].sig # Hmac(payments[call[p].paymentId].razorpayOrderId, call[p].rpId)
        /\ ret[p].status = "OK"
        /\ ret[p].message = "Payment already verified and completed."
        /\ ret[p].bookingId = payments[call[p].paymentId].bookingId
        /\ ret[p].slotId = 1
        /\ commits[call[p].paymentId] = 1

\* C27: listPaymentsByUser changes nothing in the store, returns one entry
\* for each payment of the given user and no other entry, each with the
\* payment's own booking, status, date and order id, and the entries are in
\* descending order of payment date.
C27_ListIsReadOnlyFilteredAndOrdered ==
    [][\A p \in Procs :
          Starts(p, "listPaymentsByUser") =>
            LET l == ret'[p].list
                mine == {i \in PaymentIds : payments[i].userId = call'[p].userId}
            IN /\ pc'[p] = "done"
               /\ <<store, orders, transitions, commits, mails>>'
                    = <<store, orders, transitions, commits, mails>>
               /\ {l[k].paymentId : k \in 1..Len(l)} = mine
               /\ Len(l) = Cardinality(mine)
               /\ \A k \in 1..Len(l) :
                    /\ l[k].bookingId = payments[l[k].paymentId].bookingId
                    /\ l[k].status = payments[l[k].paymentId].paymentStatus
                    /\ l[k].paymentDate = payments[l[k].paymentId].paymentDate
                    /\ l[k].razorpayOrderId = payments[l[k].paymentId].razorpayOrderId
               /\ \A j, k \in 1..Len(l) :
                    j < k => l[j].paymentDate >= l[k].paymentDate]_vars

\* C27 witness: a listing of two payments of one user made at different
\* dates, the newer one first, while the table also holds a payment of
\* another user.
C27_Witness ==
    \E p \in Procs :
        /\ pc[p] = "done"
        /\ call[p].op = "listPaymentsByUser"
        /\ Len(ret[p].list) = 2
        /\ ret[p].list[1].paymentDate > ret[p].list[2].paymentDate
        /\ ret[p].list[1].paymentId > ret[p].list[2].paymentId
        /\ \E i \in PaymentIds : payments[i].userId # call[p].userId

\* C31: no two payments record the same gateway payment id; a commit that
\* offers a payment id already recorded on another payment ends with
\* INTERNAL_SERVER_ERROR and leaves payments and slots as they were, so a
\* PENDING payment of its own stays PENDING.
C31_PaymentIdRecordedOnce ==
    /\ [](\A i, j \in PaymentIds :
            (i # j /\ payments[i].razorpayPaymentId # Null)
            => payments[i].razorpayPaymentId # payments[j].razorpayPaymentId)
    /\ [][\A p \in Procs :
            (/\ pc[p] = "pay_commit"
             /\ pc'[p] # "pay_commit"
             /\ \E j \in PaymentIds : /\ j # call[p].paymentId
                                      /\ payments[j].razorpayPaymentId = call[p].rpId)
            => /\ pc'[p] = "done"
               /\ ret'[p].status = "INTERNAL_SERVER_ERROR"
               /\ payments' = payments
               /\ slots' = slots
               /\ commits' = commits]_vars

\* C31 witness: payment 1 is completed under a payment id; a callback for
\* payment 2 that offered the same id with a signature that verifies failed
\* at the commit, and payment 2 is PENDING, its slot AVAILABLE.
C31_Witness ==
    \E p \in Procs :
        /\ CommitFailed(p)
        /\ call[p].paymentId = 2
        /\ payments[1].paymentStatus = "COMPLETED"
        /\ payments[1].razorpayPaymentId = call[p].rpId
        /\ call[p].sig = Hmac(payments[2].razorpayOrderId, call[p].rpId)
        /\ payments[2].paymentStatus = "PENDING"
        /\ payments[2].razorpayPaymentId = Null
        /\ slots[2].availabilityStatus = "AVAILABLE"

\* What completePayment may write in a payment row: its status, gateway
\* payment id and signature.  The row with these three blanked.
Unwritten(row) ==
    [row EXCEPT !.paymentStatus = "", !.razorpayPaymentId = Null, !.razorpaySignature = <<>>]

\* C32: no step of completePayment changes a payment's amount, currency,
\* order id, booking, user or transaction tag, adds or removes a payment, or
\* changes a slot other than the slot of the booking of the payment the
\* request names.
C32_CompletePaymentFrame ==
    [][/\ Len(payments') = Len(payments)
       /\ \A i \in PaymentIds : Unwritten(payments'[i]) = Unwritten(payments[i])
       /\ Len(slots') = Len(slots)
       /\ \A s \in SlotIds :
            slots'[s] # slots[s]
            => \E p \in Procs :
                  /\ pc[p] # pc'[p]
                  /\ call[p].op = "completePayment"
                  /\ call[p].paymentId \in PaymentIds
                  /\ s = bookings[payments[call[p].paymentId].bookingId].slotId]_vars

\* C32 witness: both payments have been through completePayment, one
\* completed and one failed; each still has its own amount, order id and
\* booking, and only the slot of the completed one is booked.
C32_Witness ==
    /\ Len(payments) = 2
    /\ payments[1].paymentStatus = "COMPLETED"
    /\ payments[2].paymentStatus = "FAILED"
    /\ \A i \in 1..2 : /\ payments[i].amountInPaise = 100 * i
                       /\ payments[i].razorpayOrderId = i
                       /\ payments[i].bookingId = i
                       /\ payments[i].currency = "INR"
    /\ slots[1].availabilityStatus = "BOOKED"
    /\ slots[2].availabilityStatus = "AVAILABLE"

\* C33: in every reachable state no two slots have the same station, RJ and
\* slot time, whatever create and update calls were made and however they
\* interleaved.
C33_NoDuplicateSlot ==
    \A s, t \in SlotIds :
        (s # t /\ slots[s].exists /\ slots[t].exists)
        => slots[s].slotTime # slots[t].slotTime

\* C34: the amount listPaymentsByUser reports for a payment that was created
\* with an amount of at most two decimal places is the amount that was given
\* to createPayment, and the row holds that amount in paise.
C34_AmountRoundTrip ==
    \A p, q \in Procs :
        (/\ pc[p] = "done" /\ call[p].op = "createPayment" /\ call[p].paymentId # Null
         /\ pc[q] = "done" /\ call[q].op = "listPaymentsByUser")
        => \A k \in 1..Len(ret[q].list) :
              ret[q].list[k].paymentId = call[p].paymentId
              => /\ ret[q].list[k].amount = DoubleOf(call[p].amount)
                 /\ payments[call[p].paymentId].amountInPaise * 10 = call[p].amount

\* C34 witness: a payment of 0.29 rupees (0.29 * 100 is not 29 in double
\* arithmetic) was created, stored as 29 paise, and listed.
C34_Witness ==
    \E p, q \in Procs :
        /\ pc[p] = "done" /\ call[p].op = "createPayment" /\ call[p].paymentId # Null
        /\ call[p].amount = 290
        /\ DoubleTimes(DoubleOf(290), 100) # DoubleOf(29000)
        /\ payments[call[p].paymentId].amountInPaise = 29
        /\ pc[q] = "done" /\ call[q].op = "listPaymentsByUser"
        /\ Len(ret[q].list) = 1
        /\ ret[q].list[1].paymentId = call[p].paymentId
        /\ ret[q].list[1].amount = DoubleOf(290)

\* C35: while a handleBookAndPay flow is under way, from the click to its
\* end, isBookingSlotId is the id of the slot that was clicked, so that the
\* slot's Book button is disabled.
C35_MarkerHeldDuringFlow ==
    \A p \in Procs : pc[p] \in UiLabels => isBookingSlotId = call[p].slotId

====
